---- MODULE Spec2Model ----
(***************************************************************************)
(* Model of SuffixTree<S, C> (src/suffixtree.h): a generalized suffix tree *)
(* built online with Ukkonen's algorithm.  The heap is an arena H of node  *)
(* records; a Node* is an index into H and nullptr is 0.  Strings are      *)
(* sequences of symbols; the code's 0-based positions are kept and         *)
(* converted where a sequence is indexed.                                  *)
(***************************************************************************)
EXTENDS Integers, Sequences, FiniteSets, TLC

\* ---------------------------------------------------------------- bounds
\* at most MaxStrings strings are registered, of total length <= MaxTotal
MaxStrings == 3
MaxTotal == 6

\* -------------------------------------------------------- program values
IntMax == 2147483647
Alphabet == {1, 2}
\* value read at s[s.length()]
NUL == 0
\* what a read past the terminator of a string may yield: any symbol value
Junk == Alphabet \cup {NUL, 3}
Strings == UNION {[1..n -> Alphabet] : n \in 0..MaxTotal}

Null == 0
Sink == 1
Root == 2

mapped_substring(ref, left, right) == [ref_str |-> ref, l |-> left, r |-> right]

transition(s, t) == [sub |-> s, tgt |-> t]

reference_point(n, ref, left) == [first |-> n, ref_str |-> ref, l |-> left]

Node == [kind |-> "Node", g |-> <<>>, suffix_link |-> Null]

SinkNode == [kind |-> "SinkNode", g |-> <<>>, suffix_link |-> Null]

Leaf == [kind |-> "Leaf", g |-> <<>>, suffix_link |-> Null]

\* Base(): sink and root are members, wired to each other
Base == <<[SinkNode EXCEPT !.suffix_link = Root], [Node EXCEPT !.suffix_link = Sink]>>

\* w[i] of a std::basic_string: the symbol, the terminator at i = length,
\* and an arbitrary value (junk) beyond it
At(w, i, junk) ==
    IF 0 <= i /\ i < Len(w) THEN w[i + 1]
    ELSE IF i = Len(w) THEN NUL
    ELSE junk

\* unordered_map::insert: keeps an existing entry
insert(g, key, t) == IF key \in DOMAIN g THEN g ELSE (key :> t) @@ g

\* unordered_map::operator[] assignment: overwrites
assign(g, key, t) == (key :> t) @@ g

\* unordered_map::erase(key)
erase(h, key) == [k \in (DOMAIN h) \ {key} |-> h[k]]

find_alpha_transition(H, n, alpha) ==
    IF H[n].kind = "SinkNode"
    THEN transition(mapped_substring(0, 0, 0), H[n].suffix_link)
    ELSE IF alpha \in DOMAIN H[n].g
         THEN H[n].g[alpha]
         ELSE transition(mapped_substring(0, 0, -1), Null)

\* The memory an operation works on is a record st: the heap H, the registry
\* haystack, the value junk that out-of-range string reads yield in this
\* call, and fault: whether the call has dereferenced a null Node* or the
\* registry's end iterator.
Crash(st, what) == [st EXCEPT !.fault = what]

\* test_and_split, lines 140-147: the new node r takes the tail of the edge
\* and the edge, shortened, is redirected to r.  This variant omits
\* `tk_trans.tgt = *r`: the shortened edge keeps its old target.
split_keeps_target(heap, str_prime, junk, n, delta, tk, tk_trans) ==
    [Append(heap,
        [Node EXCEPT !.g = insert(@,
            At(str_prime, tk_trans.sub.l + delta + 1, junk),
            transition(mapped_substring(tk_trans.sub.ref_str,
                                        tk_trans.sub.l + delta + 1,
                                        tk_trans.sub.r),
                       tk_trans.tgt))])
     EXCEPT ![n].g = assign(@, tk,
            transition(mapped_substring(tk_trans.sub.ref_str, tk_trans.sub.l,
                                        tk_trans.sub.l + delta),
                       tk_trans.tgt))]

\* test_and_split, lines 140-147: the new node r = Len(heap) + 1 takes the
\* tail of the edge and the edge, shortened, is redirected to r
split(heap, str_prime, junk, n, delta, tk, tk_trans) ==
    [Append(heap,
        [Node EXCEPT !.g = insert(@,
            At(str_prime, tk_trans.sub.l + delta + 1, junk),
            transition(mapped_substring(tk_trans.sub.ref_str,
                                        tk_trans.sub.l + delta + 1,
                                        tk_trans.sub.r),
                       tk_trans.tgt))])
     EXCEPT ![n].g = assign(@, tk,
            transition(mapped_substring(tk_trans.sub.ref_str, tk_trans.sub.l,
                                        tk_trans.sub.l + delta),
                       Len(heap) + 1))]

\* test_and_split, the branch 0 <= delta, once tk_trans has been found
test_and_split_edge(st, n, delta, tk, tk_trans, t) ==
    IF tk_trans.sub.ref_str \notin DOMAIN st.haystack
    THEN [st |-> Crash(st, "haystack"), r |-> Null, ret |-> FALSE]
    ELSE IF At(st.haystack[tk_trans.sub.ref_str],
               tk_trans.sub.l + delta + 1, st.junk) = t
    THEN [st |-> st, r |-> n, ret |-> TRUE]
    ELSE [st |-> [st EXCEPT !.H = split(st.H,
                      st.haystack[tk_trans.sub.ref_str], st.junk,
                      n, delta, tk, tk_trans)],
          r |-> Len(st.H) + 1, ret |-> FALSE]

test_and_split(st, n, kp, t, w) ==
    IF n = Null
    THEN [st |-> Crash(st, "nullptr"), r |-> Null, ret |-> FALSE]
    ELSE IF 0 <= kp.r - kp.l
    THEN test_and_split_edge(st, n, kp.r - kp.l, At(w, kp.l, st.junk),
             find_alpha_transition(st.H, n, At(w, kp.l, st.junk)), t)
    ELSE [st |-> st, r |-> n,
          ret |-> (find_alpha_transition(st.H, n, t).tgt # Null)]

\* the while loop of canonize
RECURSIVE canonize_loop(_, _, _, _, _, _)
canonize_loop(st, s, l, r, tk_trans, w) ==
    IF tk_trans.sub.r - tk_trans.sub.l <= r - l
    THEN IF l + 1 + (tk_trans.sub.r - tk_trans.sub.l) <= r
         THEN IF tk_trans.tgt = Null
              THEN [st |-> Crash(st, "nullptr"), first |-> Null,
                    l |-> l + 1 + (tk_trans.sub.r - tk_trans.sub.l)]
              ELSE canonize_loop(st, tk_trans.tgt,
                      l + 1 + (tk_trans.sub.r - tk_trans.sub.l), r,
                      find_alpha_transition(st.H, tk_trans.tgt,
                          At(w, l + 1 + (tk_trans.sub.r - tk_trans.sub.l),
                             st.junk)),
                      w)
         ELSE canonize_loop(st, tk_trans.tgt,
                  l + 1 + (tk_trans.sub.r - tk_trans.sub.l), r, tk_trans, w)
    ELSE [st |-> st, first |-> s, l |-> l]

canonize(st, s, kp) ==
    IF kp.r < kp.l
    THEN [st |-> st, first |-> s, l |-> kp.l]
    ELSE IF s = Null
    THEN [st |-> Crash(st, "nullptr"), first |-> s, l |-> kp.l]
    ELSE canonize_loop(st, s, kp.l, kp.r,
             find_alpha_transition(st.H, s,
                 At(st.haystack[kp.ref_str], kp.l, st.junk)),
             st.haystack[kp.ref_str])

\* update, lines 175-182: a new Leaf (index Len(H) + 1) is hung under r by
\* an open edge and the previous node's suffix link is set to r
attach_leaf(st, oldr, r, ki, w) ==
    [st EXCEPT !.H =
        [Append(st.H, Leaf) EXCEPT
            ![r].g = insert(@, At(w, ki.r, st.junk),
                transition(mapped_substring(ki.ref_str, ki.r, IntMax),
                           Len(st.H) + 1)),
            ![oldr].suffix_link = IF oldr # Root THEN r ELSE @]]

RECURSIVE update_loop(_, _, _, _, _, _, _)

\* update, lines 173 and 185: the loop continues from test_and_split's result
update_from(ts, oldr, sk, ki, w) ==
    update_loop(ts.st, oldr, ts.r, ts.ret, sk, ki, w)

\* update, lines 184-185: ki1.l = ki.l = sk.second.second, then the test
update_test(c, r, ki, w) ==
    IF c.st.fault # "none"
    THEN [st |-> c.st, sk |-> reference_point(c.first, ki.ref_str, c.l)]
    ELSE update_from(
             test_and_split(c.st, c.first,
                 mapped_substring(ki.ref_str, c.l, ki.r - 1),
                 At(w, ki.r, c.st.junk), w),
             r, reference_point(c.first, ki.ref_str, c.l),
             [ki EXCEPT !.l = c.l], w)

\* update, line 183: sk = canonize(sk.first->suffix_link, ki1)
update_canonize(st, r, sk, ki, w) ==
    update_test(canonize(st, st.H[sk.first].suffix_link,
                         mapped_substring(ki.ref_str, ki.l, ki.r - 1)),
                r, ki, w)

\* the while loop of update and the suffix-link assignment after it
update_loop(st, oldr, r, is_endpoint, sk, ki, w) ==
    IF st.fault # "none"
    THEN [st |-> st, sk |-> sk]
    ELSE IF is_endpoint
    THEN [st |-> IF oldr # Root
                 THEN [st EXCEPT !.H[oldr].suffix_link = sk.first]
                 ELSE st,
          sk |-> sk]
    ELSE update_canonize(attach_leaf(st, oldr, r, ki, w), r, sk, ki, w)

update(st, s, ki) ==
    update_from(
        test_and_split(st, s, [ki EXCEPT !.r = ki.r - 1],
            At(st.haystack[ki.ref_str], ki.r, st.junk),
            st.haystack[ki.ref_str]),
        Root, reference_point(s, ki.ref_str, ki.l), ki,
        st.haystack[ki.ref_str])

\* the for loop of get_starting_node over one edge
RECURSIVE edge_scan(_, _, _, _, _)
edge_scan(st, s, t, k, i) ==
    IF i <= t.sub.r - t.sub.l
    THEN IF k + i >= Len(s)
         THEN [st |-> st, how |-> "runout", i |-> i]
         ELSE IF t.sub.ref_str \notin DOMAIN st.haystack
         THEN [st |-> Crash(st, "haystack"), how |-> "crash", i |-> i]
         ELSE IF At(s, k + i, st.junk)
                   # At(st.haystack[t.sub.ref_str], t.sub.l + i, st.junk)
         THEN [st |-> st, how |-> "mismatch", i |-> i]
         ELSE edge_scan(st, s, t, k, i + 1)
    ELSE [st |-> st, how |-> "end", i |-> i]

RECURSIVE get_starting_node_loop(_, _, _, _)

\* get_starting_node, lines 231-243: what follows the scan e of the edge t
get_starting_node_scanned(st, s, r, k, t, e) ==
    CASE e.how = "crash" -> [st |-> e.st, r |-> r, ret |-> k]
      [] e.how = "mismatch" ->
            [st |-> st, r |-> [r EXCEPT !.l = k], ret |-> k + e.i]
      [] e.how = "runout" ->
            [st |-> st, r |-> [r EXCEPT !.l = IntMax], ret |-> IntMax]
      [] OTHER ->
            get_starting_node_loop(st, s, [r EXCEPT !.first = t.tgt], k + e.i)

\* get_starting_node, lines 227-246: the transition t found for s[k]
get_starting_node_edge(st, s, r, k, t) ==
    IF Null # t.tgt
    THEN get_starting_node_scanned(st, s, r, k, t, edge_scan(st, s, t, k, 1))
    ELSE [st |-> st, r |-> r, ret |-> k]

\* the while loop of get_starting_node; r is the caller's reference point
get_starting_node_loop(st, s, r, k) ==
    get_starting_node_edge(st, s, r, k,
        find_alpha_transition(st.H, r.first, At(s, k, st.junk)))

get_starting_node(st, s, r) == get_starting_node_loop(st, s, r, r.l)

RECURSIVE deploy_loop(_, _, _, _, _)

\* deploy_suffixes, line 268 and ++i
deploy_next(c, s, sindex, i) ==
    deploy_loop(c.st, s, sindex, reference_point(c.first, sindex, c.l), i + 1)

\* deploy_suffixes, lines 267-268: canonize the end point update returned
deploy_canonize(u, s, sindex, i) ==
    IF u.st.fault # "none"
    THEN [st |-> u.st, ret |-> sindex]
    ELSE deploy_next(canonize(u.st, u.sk.first,
                              mapped_substring(sindex, u.sk.l, i)),
                     s, sindex, i)

\* the for loop of deploy_suffixes
deploy_loop(st, s, sindex, active_point, i) ==
    IF st.fault # "none" \/ ~(i < Len(s))
    THEN [st |-> st, ret |-> sindex]
    ELSE deploy_canonize(
             update(st, active_point.first,
                    mapped_substring(sindex, active_point.l, i)),
             s, sindex, i)

\* what deploy_suffixes leaves: memory, return value, and the position and
\* reference point get_starting_node gave it
deploy_result(d, gs) ==
    [st |-> d.st, ret |-> d.ret, gsn |-> [i |-> gs.ret, r |-> gs.r]]

\* deploy_suffixes, lines 261-270, with a variation: when the walk runs out
\* it first hangs an end-marker leaf for the new string under the node
\* reached and then reports failure
deploy_from_marks_end(gs, s, sindex) ==
    IF IntMax = gs.ret
    THEN deploy_result(
             [st |-> [gs.st EXCEPT !.H =
                        [Append(gs.st.H, Leaf) EXCEPT ![gs.r.first].g =
                            insert(@, NUL, transition(
                                mapped_substring(sindex, Len(s), IntMax),
                                Len(gs.st.H) + 1))]],
              ret |-> -1], gs)
    ELSE deploy_result(deploy_loop(gs.st, s, sindex, gs.r, gs.ret), gs)

\* deploy_suffixes, lines 261-270: gs is get_starting_node's result
deploy_from(gs, s, sindex) ==
    IF IntMax = gs.ret
    THEN deploy_result([st |-> gs.st, ret |-> -1], gs)
    ELSE deploy_result(deploy_loop(gs.st, s, sindex, gs.r, gs.ret), gs)

deploy_suffixes(st, s, sindex) ==
    deploy_from(get_starting_node(st, s, reference_point(Root, sindex, 0)),
                s, sindex)

\* addString, lines 279-283, with the rollback written
\* haystack.erase(--last_index)
addString_return_erases_previous(d, li) ==
    IF d.st.fault # "none"
    THEN [H |-> d.st.H, haystack |-> d.st.haystack, last_index |-> li,
          fault |-> d.st.fault, ret |-> 0, gsn |-> d.gsn]
    ELSE IF 0 > d.ret
    THEN [H |-> d.st.H, haystack |-> erase(d.st.haystack, li - 1),
          last_index |-> li - 1, fault |-> "none", ret |-> -1, gsn |-> d.gsn]
    ELSE [H |-> d.st.H, haystack |-> d.st.haystack, last_index |-> li,
          fault |-> "none", ret |-> li, gsn |-> d.gsn]

\* addString, lines 279-283: d is deploy_suffixes' result, li the incremented
\* last_index.  A call that crashes returns nothing (ret 0) and leaves the
\* memory as it was at the crash.
addString_return(d, li) ==
    IF d.st.fault # "none"
    THEN [H |-> d.st.H, haystack |-> d.st.haystack, last_index |-> li,
          fault |-> d.st.fault, ret |-> 0, gsn |-> d.gsn]
    ELSE IF 0 > d.ret
    THEN [H |-> d.st.H, haystack |-> erase(d.st.haystack, li),
          last_index |-> li - 1, fault |-> "none", ret |-> -1, gsn |-> d.gsn]
    ELSE [H |-> d.st.H, haystack |-> d.st.haystack, last_index |-> li,
          fault |-> "none", ret |-> li, gsn |-> d.gsn]

\* addString: the state it leaves and the value it returns
addString(H0, haystack0, last_index0, new_string, junk) ==
    addString_return(
        deploy_suffixes(
            [H |-> H0,
             haystack |-> insert(haystack0, last_index0 + 1, new_string),
             junk |-> junk, fault |-> "none"],
            new_string, last_index0 + 1),
        last_index0 + 1)

\* ---------------------------------------------------------------- clean
RECURSIVE SetToSeq(_)
SetToSeq(S) ==
    IF S = {} THEN <<>>
    ELSE LET x == CHOOSE y \in S : \A z \in S : y <= z
         IN  <<x>> \o SetToSeq(S \ {x})

\* the targets of the transitions of node n, in iteration order
Targets(H, n) ==
    LET keys == SetToSeq(DOMAIN H[n].g)
    IN  [j \in 1..Len(keys) |-> H[n].g[keys[j]].tgt]

InSeq(x, q) == \E j \in 1..Len(q) : q[j] = x

\* Base::clean: the nodes deleted, in order, and every node enqueued; the
\* walk stops (uaf) when it dequeues a node it has already deleted
RECURSIVE clean_loop(_, _, _, _)
clean_loop(H, del_list, freed, enq) ==
    IF del_list = <<>>
    THEN [freed |-> freed, enq |-> enq, uaf |-> FALSE]
    ELSE LET current == Head(del_list)
         IN  IF InSeq(current, freed)
             THEN [freed |-> Append(freed, current), enq |-> enq, uaf |-> TRUE]
             ELSE clean_loop(H, Tail(del_list) \o Targets(H, current),
                             IF Root # current THEN Append(freed, current)
                                               ELSE freed,
                             enq \o Targets(H, current))

clean(H) == clean_loop(H, <<Root>>, <<>>, <<Root>>)

\* ---------------------------------------------------------------- state
VARIABLES H, haystack, last_index, fault, op, arg, ret, gsn, freed

vars == <<H, haystack, last_index, fault, op, arg, ret, gsn, freed>>

NoClean == [freed |-> <<>>, enq |-> <<>>, uaf |-> FALSE]

Init ==
    /\ H = Base
    /\ haystack = <<>>
    /\ last_index = 0
    /\ fault = "none"
    /\ op = "new"
    /\ arg = <<>>
    /\ ret = 0
    /\ gsn = [i |-> 0, r |-> reference_point(Root, 0, 0)]
    /\ freed = NoClean

TotalLen(h) ==
    LET RECURSIVE Sum(_)
        Sum(D) == IF D = {} THEN 0
                  ELSE LET k == CHOOSE x \in D : TRUE
                       IN  Len(h[k]) + Sum(D \ {k})
    IN  Sum(DOMAIN h)

\* the members and the caller's view after a call that left a
Returned(a) ==
    /\ H' = a.H
    /\ haystack' = a.haystack
    /\ last_index' = a.last_index
    /\ fault' = a.fault
    /\ ret' = a.ret
    /\ gsn' = a.gsn

AddString(new_string, junk) ==
    /\ op # "clean"
    /\ fault = "none"
    /\ last_index < MaxStrings
    /\ TotalLen(haystack) + Len(new_string) <= MaxTotal
    /\ Returned(addString(H, haystack, last_index, new_string, junk))
    /\ op' = "addString"
    /\ arg' = new_string
    /\ UNCHANGED freed

\* ~SuffixTree -> ~Base -> clean; not run by a process that has crashed
Clean ==
    /\ op # "clean"
    /\ fault = "none"
    /\ freed' = clean(H)
    /\ op' = "clean"
    /\ UNCHANGED <<H, haystack, last_index, fault, arg, ret, gsn>>

Next ==
    \/ \E new_string \in Strings, junk \in Junk : AddString(new_string, junk)
    \/ Clean

Spec == Init /\ [][Next]_vars

\* ------------------------------------------------- reading the tree back
\* the symbols an edge stands for; an open edge is read up to the end of
\* the string it refers to
EdgeLabel(hs, sub) ==
    IF sub.ref_str \notin DOMAIN hs THEN <<>>
    ELSE LET w == hs[sub.ref_str]
             last == IF sub.r < Len(w) - 1 THEN sub.r ELSE Len(w) - 1
         IN  SubSeq(w, sub.l + 1, last + 1)

StoredEdges(heap) ==
    UNION {{<<n, k>> : k \in DOMAIN heap[n].g} : n \in 1..Len(heap)}

\* every (node, concatenated labels) met on a path of transitions from n
RECURSIVE PathsFrom(_, _, _, _, _)
PathsFrom(heap, hs, n, text, fuel) ==
    {[node |-> n, text |-> text]} \cup
    (IF fuel = 0 THEN {}
     ELSE UNION {PathsFrom(heap, hs, heap[n].g[k].tgt,
                           text \o EdgeLabel(hs, heap[n].g[k].sub), fuel - 1)
                 : k \in DOMAIN heap[n].g})

Paths(heap, hs) == PathsFrom(heap, hs, Root, <<>>, Len(heap))

IsPrefix(x, w) == Len(x) <= Len(w) /\ SubSeq(w, 1, Len(x)) = x

IsSubstring(x, w) ==
    \E a \in 0..(Len(w) - Len(x)) : SubSeq(w, a + 1, a + Len(x)) = x

Suffix(w, j) == SubSeq(w, j, Len(w))

\* text can be read from root along transitions, ending at a node or
\* inside an edge
Readable(heap, hs, text) ==
    \E p \in Paths(heap, hs) :
        \/ p.text = text
        \/ /\ IsPrefix(p.text, text)
           /\ \E k \in DOMAIN heap[p.node].g :
                 IsPrefix(text, p.text \o EdgeLabel(hs, heap[p.node].g[k].sub))

LongestReadablePrefix(heap, hs, s) ==
    CHOOSE n \in 0..Len(s) :
        /\ Readable(heap, hs, SubSeq(s, 1, n))
        /\ \A m \in (n + 1)..Len(s) : ~Readable(heap, hs, SubSeq(s, 1, m))

NoDup(q) == \A a, b \in 1..Len(q) : q[a] = q[b] => a = b

Range(q) == {q[j] : j \in 1..Len(q)}

InDegree(heap, m) ==
    Cardinality({e \in StoredEdges(heap) : heap[e[1]].g[e[2]].tgt = m})

\* ------------------------------------------------------------- claims

\* C1: round-trip membership -- after any sequence of addString calls,
\* every suffix of every string whose call returned a positive id can
\* be read from root along transitions whose labels spell that suffix.
C1_RoundTripMembership ==
    fault = "none" =>
        \A id \in DOMAIN haystack :
            \A j \in 1..Len(haystack[id]) :
                Readable(H, haystack, Suffix(haystack[id], j))

\* C2: addString(s) returns -1 if and only if s is entirely subsumed by
\* the tree as it was before the call (all of s readable from root, ending
\* at a node or inside an edge); otherwise a positive id is returned.
C2_FailIffSubsumed ==
    [][(op' = "addString" /\ fault' = "none") =>
          /\ (ret' = -1) <=> Readable(H, haystack, arg')
          /\ ret' # -1 => ret' >= 1]_vars

\* C3: ids are sequential and failures do not consume them -- the registry's
\* key set is exactly 1..last_index, a successful call returns
\* last_index + 1 (so the k-th success returns k, never 0) and maps that id
\* to its argument, and a failed call leaves counter and registry unchanged.
C3_SequentialIds ==
    /\ [](DOMAIN haystack = 1..last_index)
    /\ [][(op' = "addString" /\ fault' = "none") =>
            IF ret' = -1
            THEN last_index' = last_index /\ haystack' = haystack
            ELSE /\ ret' = last_index + 1
                 /\ ret' >= 1
                 /\ last_index' = ret'
                 /\ DOMAIN haystack' = DOMAIN haystack \cup {ret'}
                 /\ haystack'[ret'] = arg'
                 /\ \A id \in DOMAIN haystack : haystack'[id] = haystack[id]]_vars

C3_Witness ==
    /\ op = "addString" /\ fault = "none" /\ ret = -1
    /\ last_index = 2 /\ haystack[2] # haystack[1]

\* C4: leaf coverage -- after a successful addString of a string of length
\* n, each of its n non-empty suffixes is the label of a root-to-leaf path.
C4_LeafCoverage ==
    (op = "addString" /\ fault = "none" /\ ret >= 1) =>
        \A j \in 1..Len(arg) :
            \E p \in Paths(H, haystack) :
                H[p.node].kind = "Leaf" /\ p.text = Suffix(arg, j)

\* C5: suffix-link completeness -- after a successful addString, every
\* internal node created by a split during it has a non-null suffix link
\* to a node reachable from root whose path label is the creating node's
\* path label without its first symbol.
C5_SuffixLinkCompleteness ==
    [][(op' = "addString" /\ fault' = "none" /\ ret' >= 1) =>
          \A m \in (Len(H) + 1)..Len(H') :
              H'[m].kind = "Node" =>
                  /\ H'[m].suffix_link # Null
                  /\ \E p, q \in Paths(H', haystack') :
                        /\ p.node = m
                        /\ q.node = H'[m].suffix_link
                        /\ p.text # <<>>
                        /\ q.text = Tail(p.text)]_vars

\* C6: teardown safety -- every allocated node is the target of exactly
\* one transition, root and sink of none; clean then deletes every
\* allocated node exactly once, enqueues no node twice, never deletes root
\* or sink and never dequeues a deleted node.
C6_TeardownSafety ==
    /\ \A m \in 3..Len(H) : InDegree(H, m) = 1
    /\ InDegree(H, Root) = 0 /\ InDegree(H, Sink) = 0
    /\ op = "clean" =>
          /\ ~freed.uaf
          /\ NoDup(freed.freed)
          /\ NoDup(freed.enq)
          /\ Range(freed.freed) = 3..Len(H)

C6_Witness ==
    /\ op = "clean" /\ ret = -1 /\ last_index = 2
    /\ \E m \in Range(freed.freed) : H[m].kind = "Node"
    /\ \E m \in Range(freed.freed) : H[m].kind = "Leaf"

\* C7: no spurious content -- every stored transition is keyed by the
\* first symbol of its label, and the labels along any path from root
\* spell a contiguous substring of a string in the registry.
C7_NoSpuriousContent ==
    fault = "none" =>
        /\ \A e \in StoredEdges(H) :
              LET lab == EdgeLabel(haystack, H[e[1]].g[e[2]].sub)
              IN  lab # <<>> /\ lab[1] = e[2]
        /\ \A p \in Paths(H, haystack) :
              p.text = <<>> \/
              \E id \in DOMAIN haystack : IsSubstring(p.text, haystack[id])

\* C8: when get_starting_node returns a position p other than the run-out
\* sentinel, s[0..p-1] is the longest prefix of s readable from root and the
\* reference point (node, left) it leaves has path-label(node) =
\* s[0..left-1] with s[left..p-1] lying on the edge leaving node by s[left]
\* (left = p when the walk stopped at a node).
C8_StartingNodeIsDivergencePoint ==
    [][(op' = "addString" /\ gsn'.i # IntMax) =>
          LET s == arg'
              p == gsn'.i
              node == gsn'.r.first
              left == gsn'.r.l
          IN  /\ p = LongestReadablePrefix(H, haystack, s)
              /\ left <= p
              /\ \E q \in Paths(H, haystack) :
                    q.node = node /\ q.text = SubSeq(s, 1, left)
              /\ left < p =>
                    /\ s[left + 1] \in DOMAIN H[node].g
                    /\ LET sub == H[node].g[s[left + 1]].sub
                       IN  /\ IsPrefix(SubSeq(s, left + 1, p),
                                       EdgeLabel(haystack, sub))
                           /\ p - left <= sub.r - sub.l]_vars

\* C9: registry lookups never fail during insertion -- no call looks up a
\* string id missing from the registry and no null node pointer is followed.
C9_LookupsNeverFail == fault = "none"

\* C10: a failed addString changes nothing in the tree (nodes, transitions,
\* suffix links), so no stored transition refers to a string id that is not
\* in the registry.
C10_FailedInsertLeavesTree ==
    /\ [](\A e \in StoredEdges(H) : H[e[1]].g[e[2]].sub.ref_str \in DOMAIN haystack)
    /\ [][(op' = "addString" /\ fault' = "none" /\ ret' = -1) => H' = H]_vars

C10_Witness ==
    op = "addString" /\ fault = "none" /\ ret = -1 /\ Len(H) > 4

====
